---------------------------- MODULE Spec2Model ----------------------------
(***************************************************************************)
(* A model of the quiz solver: the solve loop of app/solver.py             *)
(* (solve_quiz), the sandbox of app/script_runner.py (run_script) and the  *)
(* retry loop of app/llm_client.py (generate_solver_script).               *)
(*                                                                         *)
(* One session is modelled.  The position of solve_quiz is pc; every       *)
(* collaborator call (render, generation attempt, child process, POST) is  *)
(* one action whose result is drawn from the outcomes the collaborator can *)
(* produce, and which lets a positive amount of wall-clock time pass.      *)
(***************************************************************************)
EXTENDS Integers, Sequences, FiniteSets, TLC

VARIABLES
    pc,           \* position of solve_quiz
    current_url,  \* solver.py:159
    deadline_ts,  \* argument of solve_quiz
    now,          \* time.time(), in seconds
    api_key,      \* TRUE when GEMINI_API_KEY / GOOGLE_API_KEY is set
    attempt,      \* loop variable of generate_solver_script
    script_code,  \* the source text handed to run_script
    tmp_exists,   \* TRUE while the temporary script file exists
    child,        \* what subprocess.run did in this iteration
    raised,       \* the exception the last collaborator call raised, or "none"
    result,       \* the dict run_script returned
    submission,   \* solver.py:241 / 289 / 291
    answer,       \* solver.py:244-262
    iter,         \* the current iteration: its number, its URL and the calls made in it
    html,         \* solver.py:173, as the URL matches of line 48 in document order
    submit_url,   \* solver.py:185 / 259
    posted,       \* the request of client.post (solver.py:278), or NoPost
    probe         \* a function applied on its own: its input and its results

vars == <<pc, current_url, deadline_ts, now, api_key, attempt, script_code,
          tmp_exists, child, raised, result, submission, answer, iter,
          html, submit_url, posted, probe>>

---------------------------------------------------------------------------
(* Bounds of the model *)

\* the latest deadline a session is started with (now starts at 0)
MaxDeadline == 130

\* the longest time one collaborator call takes
MaxCall == 40

\* the most URL matches a page has when the extraction is applied on its own
MaxUrls == 2

---------------------------------------------------------------------------
(* Program constants *)

LOOP_MARGIN == 30       \* solver.py:168
RETRY_MARGIN == 60      \* solver.py:326
MAX_ATTEMPTS == 3       \* llm_client.py:196
FAIL_RETURNCODE == -1   \* script_runner.py:45, 62
SESSION_SECONDS == 180  \* main.py:37
BACKOFF_MS == 1500      \* llm_client.py:245, 251, in milliseconds

---------------------------------------------------------------------------
(* JSON values, as Python sees them after json.loads *)

Null == [t |-> "null"]
Bool(b) == [t |-> "bool", b |-> b]
Num(n) == [t |-> "num", n |-> n]
Str(s) == [t |-> "str", s |-> s]
List(items) == [t |-> "list", items |-> items]
Dict(m) == [t |-> "dict", m |-> m]

EmptyMap == [k \in {} |-> Null]

IsDict(v) == v.t = "dict"
IsStr(v) == v.t = "str"

\* "key in d" for a Python dict
HasKey(d, key) == key \in DOMAIN d.m

\* d.get(key): the value, or None
Get(d, key) == IF key \in DOMAIN d.m THEN d.m[key] ELSE Null

\* d[key] = v
SetKey(d, key, v) == Dict([k \in (DOMAIN d.m) \cup {key} |-> IF k = key THEN v ELSE d.m[k]])

U1 == "https://q.example/1"
U2 == "https://q.example/2"
Urls == {U1, U2}

---------------------------------------------------------------------------
(* Texts a child process or the submission endpoint can produce, and what  *)
(* str.strip and json.loads make of them                                   *)

NOT_JSON == "not json"
NO_OUTPUT_MSG == "Script produced no usable output"
FALLBACK_STDOUT == "{\"answer\": null, \"error\": \"Failed to generate solver script from LLM.\"}\n"

\* raw standard output of a child process
RawStdouts == {
    "",
    "  \n",
    "not json\n",
    "42\n",
    "\"abc\"\n",
    "null\n",
    "[1]\n",
    "{}\n",
    "{\"answer\": 42}\n",
    "{\"answer\": null}\n",
    "{\"result\": 5}\n",
    "{\"meta\": {\"answer\": 7}}\n",
    "{\"correct\": true, \"url\": \"https://q.example/2\"}\n",
    "{\"correct\": false, \"url\": null}\n",
    "{\"answer\": \"\"}\n",
    "{\"answer\": \" None \"}\n",
    "{\"answer\": 42, \"submit_url\": \"https://api.example/submit\"}\n",
    "{\"answer\": 42, \"submit_url\": \"\", \"submission_url\": \"http://api.example/submit\"}\n",
    "{\"answer\": 42, \"submit_url\": \"ftp://api.example\", \"submission_url\": \"https://api.example/submit\"}\n",
    FALLBACK_STDOUT }

\* str.strip on the texts above
strip(s) ==
    CASE s = "  \n" -> ""
      [] s = "not json\n" -> NOT_JSON
      [] s = "42\n" -> "42"
      [] s = "\"abc\"\n" -> "\"abc\""
      [] s = "null\n" -> "null"
      [] s = "[1]\n" -> "[1]"
      [] s = "{}\n" -> "{}"
      [] s = "{\"answer\": 42}\n" -> "{\"answer\": 42}"
      [] s = "{\"answer\": null}\n" -> "{\"answer\": null}"
      [] s = "{\"result\": 5}\n" -> "{\"result\": 5}"
      [] s = "{\"meta\": {\"answer\": 7}}\n" -> "{\"meta\": {\"answer\": 7}}"
      [] s = "{\"correct\": true, \"url\": \"https://q.example/2\"}\n"
            -> "{\"correct\": true, \"url\": \"https://q.example/2\"}"
      [] s = "{\"correct\": false, \"url\": null}\n" -> "{\"correct\": false, \"url\": null}"
      [] s = FALLBACK_STDOUT
            -> "{\"answer\": null, \"error\": \"Failed to generate solver script from LLM.\"}"
      [] s = "{\"answer\": \"\"}\n" -> "{\"answer\": \"\"}"
      [] s = "{\"answer\": \" None \"}\n" -> "{\"answer\": \" None \"}"
      [] s = "{\"answer\": 42, \"submit_url\": \"https://api.example/submit\"}\n"
            -> "{\"answer\": 42, \"submit_url\": \"https://api.example/submit\"}"
      [] s = "{\"answer\": 42, \"submit_url\": \"\", \"submission_url\": \"http://api.example/submit\"}\n"
            -> "{\"answer\": 42, \"submit_url\": \"\", \"submission_url\": \"http://api.example/submit\"}"
      [] s = "{\"answer\": 42, \"submit_url\": \"ftp://api.example\", \"submission_url\": \"https://api.example/submit\"}\n"
            -> "{\"answer\": 42, \"submit_url\": \"ftp://api.example\", \"submission_url\": \"https://api.example/submit\"}"
      [] s = "Traceback\n" -> "Traceback"
      [] OTHER -> s

X50 == "xxxxxxxxxxxxxxxxxxxxxxxxxxxxxxxxxxxxxxxxxxxxxxxxxx"
X200 == X50 \o X50 \o X50 \o X50

\* a body of more than 200 characters that is not JSON
LONG_BODY == X200 \o "yyyy"

\* bodies the submission endpoint answers with
SubmitBodies == {
    "Internal Server Error",
    LONG_BODY,
    "[]",
    "7",
    "\"ok\"",
    "null",
    "{}",
    "{\"correct\": true, \"url\": \"https://q.example/2\"}",
    "{\"correct\": true, \"url\": \"https://q.example/1\"}",
    "{\"correct\": true, \"url\": null}",
    "{\"correct\": true, \"url\": \"\"}",
    "{\"correct\": false, \"url\": \"https://q.example/2\", \"reason\": \"wrong\"}",
    "{\"correct\": false, \"url\": null, \"reason\": \"wrong\"}",
    "{\"correct\": \"yes\", \"url\": 5}" }

\* json.loads: [ok |-> TRUE, v |-> value], or [ok |-> FALSE] for JSONDecodeError
Parsed(v) == [ok |-> TRUE, v |-> v]
DecodeError == [ok |-> FALSE]

json_loads(s) ==
    CASE s = "42" -> Parsed(Num(42))
      [] s = "7" -> Parsed(Num(7))
      [] s = "\"abc\"" -> Parsed(Str("abc"))
      [] s = "\"ok\"" -> Parsed(Str("ok"))
      [] s = "null" -> Parsed(Null)
      [] s = "[1]" -> Parsed(List(<<Num(1)>>))
      [] s = "[]" -> Parsed(List(<<>>))
      [] s = "{}" -> Parsed(Dict(EmptyMap))
      [] s = "{\"answer\": 42}" -> Parsed(Dict([answer |-> Num(42)]))
      [] s = "{\"answer\": null}" -> Parsed(Dict([answer |-> Null]))
      [] s = "{\"result\": 5}" -> Parsed(Dict([result |-> Num(5)]))
      [] s = "{\"meta\": {\"answer\": 7}}" -> Parsed(Dict([meta |-> Dict([answer |-> Num(7)])]))
      [] s = "{\"answer\": null, \"error\": \"Failed to generate solver script from LLM.\"}"
            -> Parsed(Dict([answer |-> Null,
                            error |-> Str("Failed to generate solver script from LLM.")]))
      [] s = "{\"correct\": true, \"url\": \"https://q.example/2\"}"
            -> Parsed(Dict([correct |-> Bool(TRUE), url |-> Str(U2)]))
      [] s = "{\"correct\": true, \"url\": \"https://q.example/1\"}"
            -> Parsed(Dict([correct |-> Bool(TRUE), url |-> Str(U1)]))
      [] s = "{\"correct\": true, \"url\": null}"
            -> Parsed(Dict([correct |-> Bool(TRUE), url |-> Null]))
      [] s = "{\"correct\": true, \"url\": \"\"}"
            -> Parsed(Dict([correct |-> Bool(TRUE), url |-> Str("")]))
      [] s = "{\"correct\": false, \"url\": \"https://q.example/2\", \"reason\": \"wrong\"}"
            -> Parsed(Dict([correct |-> Bool(FALSE), url |-> Str(U2), reason |-> Str("wrong")]))
      [] s = "{\"correct\": false, \"url\": null, \"reason\": \"wrong\"}"
            -> Parsed(Dict([correct |-> Bool(FALSE), url |-> Null, reason |-> Str("wrong")]))
      [] s = "{\"correct\": false, \"url\": null}"
            -> Parsed(Dict([correct |-> Bool(FALSE), url |-> Null]))
      [] s = "{\"correct\": \"yes\", \"url\": 5}"
            -> Parsed(Dict([correct |-> Str("yes"), url |-> Num(5)]))
      [] s = "{\"answer\": \"\"}" -> Parsed(Dict([answer |-> Str("")]))
      [] s = "{\"answer\": \" None \"}" -> Parsed(Dict([answer |-> Str(" None ")]))
      [] s = "{\"answer\": 42, \"submit_url\": \"https://api.example/submit\"}"
            -> Parsed(Dict([answer |-> Num(42), submit_url |-> Str("https://api.example/submit")]))
      [] s = "{\"answer\": 42, \"submit_url\": \"\", \"submission_url\": \"http://api.example/submit\"}"
            -> Parsed(Dict([answer |-> Num(42), submit_url |-> Str(""),
                            submission_url |-> Str("http://api.example/submit")]))
      [] s = "{\"answer\": 42, \"submit_url\": \"ftp://api.example\", \"submission_url\": \"https://api.example/submit\"}"
            -> Parsed(Dict([answer |-> Num(42), submit_url |-> Str("ftp://api.example"),
                            submission_url |-> Str("https://api.example/submit")]))
      [] OTHER -> DecodeError

---------------------------------------------------------------------------
(* script_runner.py: run_script *)

TIMEOUT_STDERR == "TimeoutExpired: Command timed out after 20 seconds"
TIMEOUT_ERROR == "Timeout"
LAUNCH_ERROR == "[Errno 12] Cannot allocate memory"
EXEC_ERROR_STDERR == "Script execution error: [Errno 12] Cannot allocate memory"

\* what subprocess.run can do: raise TimeoutExpired, raise another exception,
\* or return the completed process
NoChild == [kind |-> "none", returncode |-> 0, out |-> "", err |-> ""]
ChildTimeout == [kind |-> "timeout", returncode |-> 0, out |-> "", err |-> ""]
ChildError == [kind |-> "error", returncode |-> 0, out |-> "", err |-> ""]
ChildExit(rc, out, err) == [kind |-> "exit", returncode |-> rc, out |-> out, err |-> err]

ChildOutcomes_NeverEnds(code) == {}

ChildOutcomes(code) ==
    {ChildTimeout, ChildError} \cup
    IF code = "fallback"
    THEN {ChildExit(0, FALLBACK_STDOUT, "")}
    ELSE {ChildExit(0, out, "") : out \in RawStdouts}
         \cup {ChildExit(1, out, "Traceback\n") : out \in {"", "not json\n", "{\"answer\": 42}\n"}}
         \cup {ChildExit(1, out, "") : out \in {"", "not json\n"}}

\* lines 51-52 and 67-68: if os.path.exists(script_path): os.remove(script_path)
ExceptCleanup(exists) == IF exists THEN FALSE ELSE exists

FinallyCleanup_Missing(exists) == exists

\* lines 75-80: the finally block
FinallyCleanup(exists) == IF exists THEN FALSE ELSE exists

\* whether the temporary file exists when run_script returns; it exists
\* (lines 20-27) when subprocess.run is entered
TmpAfter(o) ==
    LET created == TRUE
        handled == IF o.kind \in {"timeout", "error"} THEN ExceptCleanup(created) ELSE created
    IN  FinallyCleanup(handled)

FirstNonEmpty_SecondFirst(a, b, c) == IF b # "" THEN b ELSE IF a # "" THEN a ELSE c

\* a or b or c on strings
FirstNonEmpty(a, b, c) == IF a # "" THEN a ELSE IF b # "" THEN b ELSE c

EnsureAnswer_Skipped(parsed) == parsed

\* lines 98-100
EnsureAnswer(parsed) == IF HasKey(parsed, "answer") THEN parsed ELSE SetKey(parsed, "answer", Null)

WrapParsed_Always(parsed) == Dict([answer |-> parsed])

\* lines 86-87: a value that is not a dict is wrapped as the answer
WrapParsed(parsed) == IF IsDict(parsed) THEN parsed ELSE Dict([answer |-> parsed])

\* lines 82-100: the envelope of a completed child
ParseStdout(returncode, stdout, stderr) ==
    LET p == IF stdout # "" THEN json_loads(stdout) ELSE Parsed(Dict(EmptyMap))
        parsed ==
            IF p.ok
            THEN WrapParsed(p.v)
            ELSE IF returncode = 0 /\ stdout # ""
                 THEN Dict([answer |-> Str(stdout)])
                 ELSE Dict([answer |-> Null,
                            error |-> Str(FirstNonEmpty(stderr, stdout, NO_OUTPUT_MSG))])
    IN  EnsureAnswer(parsed)

Result(rc, out, err, resp) == [returncode |-> rc, stdout |-> out, stderr |-> err, response |-> resp]

TimeoutResult_NoError == Result(FAIL_RETURNCODE, "", TIMEOUT_STDERR, Dict([answer |-> Null]))

\* lines 42-58
TimeoutResult == Result(FAIL_RETURNCODE, "", TIMEOUT_STDERR, Dict([answer |-> Null, error |-> Str(TIMEOUT_ERROR)]))

\* lines 59-74
ErrorResult == Result(FAIL_RETURNCODE, "", EXEC_ERROR_STDERR, Dict([answer |-> Null, error |-> Str(LAUNCH_ERROR)]))

\* the dict run_script returns for an outcome of subprocess.run
run_script(o) ==
    CASE o.kind = "timeout" -> TimeoutResult
      [] o.kind = "error" -> ErrorResult
      [] OTHER -> Result(o.returncode, strip(o.out), strip(o.err),
                         ParseStdout(o.returncode, strip(o.out), strip(o.err)))

NoResult == Result(0, "", "", Null)

---------------------------------------------------------------------------
(* solver.py: the helpers of solve_quiz *)

\* A Python dict keeps its keys in insertion order, which for a parsed JSON
\* text is the order of the text.  Every dict of the model lists its keys in
\* the order of KEY_ORDER.
KEY_ORDER == <<"email", "secret", "correct", "url", "reason",
               "data", "answer_value", "output", "value", "result",
               "meta", "extra", "note", "a", "b",
               "answer", "error", "submit_url", "submission_url">>

\* list(d): the keys of a dict in insertion order
OrderedKeys(d) == SelectSeq(KEY_ORDER, LAMBDA key : key \in DOMAIN d.m)

FALLBACK_KEYS_Reversed == <<"data", "answer_value", "output", "value", "result">>

\* line 107
FALLBACK_KEYS == <<"result", "value", "output", "answer_value", "data">>

_normalise_answer_from_envelope_FallbackFirst(envelope) ==
    LET hits == SelectSeq(FALLBACK_KEYS, LAMBDA key : HasKey(envelope, key))
    IN  IF hits # <<>> THEN envelope.m[hits[1]]
        ELSE IF HasKey(envelope, "answer") THEN envelope.m["answer"] ELSE Null

\* lines 93-121 (_normalise_answer_from_envelope); envelope.values() of line
\* 115 runs in insertion order
_normalise_answer_from_envelope(envelope) ==
    IF HasKey(envelope, "answer") THEN envelope.m["answer"]
    ELSE LET hits == SelectSeq(FALLBACK_KEYS, LAMBDA key : HasKey(envelope, key))
             nested == SelectSeq(OrderedKeys(envelope),
                                 LAMBDA key : /\ IsDict(envelope.m[key])
                                              /\ HasKey(envelope.m[key], "answer"))
         IN  IF hits # <<>>
             THEN envelope.m[hits[1]]
             ELSE IF nested # <<>>
                  THEN envelope.m[nested[1]].m["answer"]
                  ELSE Null

\* str() of a digit
DigitText(d) ==
    CASE d = 0 -> "0" [] d = 1 -> "1" [] d = 2 -> "2" [] d = 3 -> "3" [] d = 4 -> "4"
      [] d = 5 -> "5" [] d = 6 -> "6" [] d = 7 -> "7" [] d = 8 -> "8" [] d = 9 -> "9"

\* str() of an integer
RECURSIVE IntText(_)
IntText(n) ==
    IF n < 0 THEN "-" \o IntText(0 - n)
    ELSE IF n < 10 THEN DigitText(n)
    ELSE IntText(n \div 10) \o DigitText(n % 10)

\* the JSON escapes of a string; only the quote occurs in the model's strings
EscapeText(s) == IF s = "say \"hi\"" THEN "say \\\"hi\\\"" ELSE s

\* json.dumps(v, separators=(",", ":")) (line 135): no space after the
\* separators, keys in insertion order
RECURSIVE json_dumps(_), DumpItems(_), DumpMembers(_, _)
json_dumps(v) ==
    CASE v.t = "null" -> "null"
      [] v.t = "bool" -> IF v.b THEN "true" ELSE "false"
      [] v.t = "num" -> IntText(v.n)
      [] v.t = "str" -> "\"" \o EscapeText(v.s) \o "\""
      [] v.t = "list" -> "[" \o DumpItems(v.items) \o "]"
      [] v.t = "dict" -> "{" \o DumpMembers(v.m, OrderedKeys(v)) \o "}"

DumpItems(items) ==
    IF items = <<>> THEN ""
    ELSE json_dumps(items[1]) \o (IF Len(items) > 1 THEN "," \o DumpItems(Tail(items)) ELSE "")

DumpMembers(m, keys) ==
    IF keys = <<>> THEN ""
    ELSE "\"" \o keys[1] \o "\":" \o json_dumps(m[keys[1]])
         \o (IF Len(keys) > 1 THEN "," \o DumpMembers(m, Tail(keys)) ELSE "")

_make_answer_json_safe_AlwaysDumps(a) == Str(json_dumps(a))

_make_answer_json_safe_Strict(a) ==
    IF a.t \in {"dict", "list"} THEN Str(json_dumps(a))
    ELSE IF a \in {Str(""), Str(" None "), Str("none")} THEN Null
    ELSE a

\* lines 124-145 (_make_answer_json_safe); JSON carries no bytes values
_make_answer_json_safe(a) ==
    IF a.t \in {"dict", "list"} THEN Str(json_dumps(a)) ELSE a

\* lines 245-250: a None answer is replaced by the empty string
DefaultAnswer_Kept(a) == a

DefaultAnswer(a) == IF a = Null THEN Str("") ELSE a

\* "x is True"
IsTrue(v) == v = Bool(TRUE)

\* isinstance(next_url, str) and next_url
IsNonEmptyStr(v) == IsStr(v) /\ v.s # ""

LoopCondition_NoMargin(url, t, deadline) == url # "" /\ t < deadline

\* line 168: current_url and time.time() < deadline_ts - 30
LoopCondition(url, t, deadline) == url # "" /\ t < deadline - LOOP_MARGIN

ShouldContinue_SameMargin(sub, t, deadline) ==
    IF IsTrue(Get(sub, "correct"))
    THEN IsNonEmptyStr(Get(sub, "url"))
    ELSE IsNonEmptyStr(Get(sub, "url")) /\ t < deadline - LOOP_MARGIN

\* lines 309-335: TRUE for "continue", FALSE for "break"
ShouldContinue(sub, t, deadline) ==
    IF IsTrue(Get(sub, "correct"))
    THEN IsNonEmptyStr(Get(sub, "url"))
    ELSE IsNonEmptyStr(Get(sub, "url")) /\ t < deadline - RETRY_MARGIN

---------------------------------------------------------------------------
(* solver.py: _extract_question_and_submit_url.  A URL text is put together  *)
(* from its parts; urlparse, str.rstrip, str.lower and str.endswith work on  *)
(* the text by taking it apart again.                                        *)

Schemes == {"http", "https"}
Hosts == {"q.example", "cdn.example", "other.example", "api.example"}
Paths == {"", "/", "/1", "/2", "/submit", "/page2", "/Answer", "/answer",
          "/static/app.js", "/IMG.PNG", "/img.png", "/notes.txt"}
Queries == {"", "?v=1"}

\* punctuation that follows a URL in running text and that the pattern of
\* line 48 takes into the match
Trails == {"", ".", ");"}

UrlParts == [scheme : Schemes, netloc : Hosts, path : Paths, query : Queries, trail : Trails]

Url(scheme, netloc, path, query, trail) ==
    [scheme |-> scheme, netloc |-> netloc, path |-> path, query |-> query, trail |-> trail]

\* the text of a URL
UrlText(u) == u.scheme \o "://" \o u.netloc \o u.path \o u.query \o u.trail

\* the parts of every URL text
UrlTable == [s \in {UrlText(u) : u \in UrlParts} |-> CHOOSE u \in UrlParts : UrlText(u) = s]

\* the parts of a URL text
UrlOf(s) == UrlTable[s]

\* urlparse(s): scheme, netloc and path (lines 74, 81)
urlparse(s) == UrlOf(s)

\* s.rstrip(").,;") (lines 50, 58)
rstrip(s) == UrlText([UrlOf(s) EXCEPT !.trail = ""])

\* str.lower on a part of a URL
LowerPart(part) ==
    CASE part = "/Answer" -> "/answer"
      [] part = "/IMG.PNG" -> "/img.png"
      [] OTHER -> part

\* s.lower() (lines 61, 71)
lower(s) ==
    LET u == UrlOf(s)
    IN  UrlText([u EXCEPT !.path = LowerPart(u.path), !.query = LowerPart(u.query)])

\* line 52-55
asset_exts == {".js", ".css", ".png", ".jpg", ".jpeg", ".gif", ".ico", ".svg", ".map"}

\* the extension a part of a URL ends in, "" when it ends in none
Extension(part) ==
    CASE part = "/static/app.js" -> ".js"
      [] part = "/img.png" -> ".png"
      [] part = "/IMG.PNG" -> ".PNG"
      [] part = "/notes.txt" -> ".txt"
      [] OTHER -> ""

\* the last non-empty part of a URL text
LastPart(s) ==
    LET u == UrlOf(s)
    IN  IF u.trail # "" THEN u.trail
        ELSE IF u.query # "" THEN u.query
        ELSE IF u.path # "" THEN u.path
        ELSE u.netloc

\* s.endswith(ext)
endswith(s, ext) == Extension(LastPart(s)) = ext

\* line 71
KEYWORDS == {"submit", "answer", "quiz"}

\* the keywords a part of a URL contains
WordsIn(part) ==
    CASE part = "/submit" -> {"submit"}
      [] part = "/answer" -> {"answer"}
      [] OTHER -> {}

\* "key in s" for a keyword and a URL text
contains(s, key) ==
    LET u == UrlOf(s)
    IN  key \in WordsIn(u.netloc) \cup WordsIn(u.path) \cup WordsIn(u.query)

\* the indices of seq whose element is in no earlier position
FirstOccurrences(seq) == {i \in DOMAIN seq : \A j \in DOMAIN seq : j < i => seq[j] # seq[i]}

\* the elements of seq at the indices of keep, in the order of seq
RECURSIVE Pick(_, _, _)
Pick(seq, keep, i) ==
    IF i > Len(seq) THEN <<>>
    ELSE (IF i \in keep THEN <<seq[i]>> ELSE <<>>) \o Pick(seq, keep, i + 1)

\* lines 57-64: the candidates, in document order and without repetition
CleanedUrls(raw_urls, quiz_url) ==
    LET cleaned == [i \in DOMAIN raw_urls |-> rstrip(raw_urls[i])]
        kept == {i \in FirstOccurrences(cleaned) :
                    /\ cleaned[i] # rstrip(quiz_url)
                    /\ \A ext \in asset_exts : ~endswith(lower(cleaned[i]), ext)}
    IN  Pick(cleaned, kept, 1)

Preferred_None(cleaned_urls) == <<>>

\* lines 69-72
Preferred(cleaned_urls) ==
    Pick(cleaned_urls,
         {i \in DOMAIN cleaned_urls : \E key \in KEYWORDS : contains(lower(cleaned_urls[i]), key)},
         1)

SUBMIT_PATH == "/submit"

\* lines 77, 82: f"{scheme}://{netloc}/submit"
SubmitOn(parsed) == parsed.scheme \o "://" \o parsed.netloc \o SUBMIT_PATH

FallbackSubmitUrl_PageItself(quiz_url) == quiz_url

\* lines 80-82: no candidate is left
FallbackSubmitUrl(quiz_url) == SubmitOn(urlparse(quiz_url))

\* lines 47-87: the submit_url of _extract_question_and_submit_url; raw_urls
\* is what re.findall finds in the HTML (line 48)
ExtractSubmitUrl(raw_urls, quiz_url) ==
    LET cleaned_urls == CleanedUrls(raw_urls, quiz_url)
        preferred == Preferred(cleaned_urls)
    IN  IF cleaned_urls # <<>>
        THEN LET candidate == IF preferred # <<>> THEN preferred[1] ELSE cleaned_urls[1]
                 parsed_cand == urlparse(candidate)
             IN  IF parsed_cand.path \in {"", "/"}
                 THEN SubmitOn(parsed_cand)
                 ELSE candidate
        ELSE FallbackSubmitUrl(quiz_url)

---------------------------------------------------------------------------
(* The session *)

\* how long a collaborator call can take
Durations == {10, MaxCall}

Deadlines == {0 - 10, 20, 75, MaxDeadline}

NoIter == [n |-> 0, url |-> "", render |-> 0, generate |-> 0, child |-> 0, post |-> 0]

\* the arguments email and secret of solve_quiz (lines 148-151)
EMAIL == "student@example.org"
SECRET == "s3cret"

\* pages fetch_rendered_html returns, as the URL matches of their HTML
Pages == {
    <<>>,
    <<"https://cdn.example/static/app.js", "https://q.example/submit.">> }

NoPost == [url |-> "", json |-> Null]
NoProbe == [fn |-> "none"]

Terminal == {"done", "aborted", "crashed"}

OnException_Continue == "head"

OnException_Resubmit == "submit"

\* lines 179-181, 189-193, 208-210, 304-306: the exception is logged and the
\* loop is left
OnException == "aborted"

Init ==
    /\ pc = "head"
    /\ current_url \in {U1, ""}
    /\ deadline_ts \in Deadlines
    /\ now = 0
    /\ api_key \in BOOLEAN
    /\ attempt = 0
    /\ script_code = ""
    /\ tmp_exists = FALSE
    /\ child = NoChild
    /\ raised = "none"
    /\ result = NoResult
    /\ submission = Null
    /\ answer = Null
    /\ iter = NoIter
    /\ html = <<>>
    /\ submit_url = ""
    /\ posted = NoPost
    /\ probe = NoProbe

Count(what) == iter' = [iter EXCEPT ![what] = @ + 1]

AtLoopTest_AfterBreak == pc \in {"head", "done"}

\* line 168 is reached on entry and after each continue, never after a break
AtLoopTest == pc = "head"

\* line 168: the loop test; a session whose test fails is over.  The locals
\* of an iteration (html, submit_url, script_code, result, submission,
\* answer) are assigned before they are read in every iteration, so they are
\* cleared here.
LoopHead ==
    /\ AtLoopTest
    /\ IF LoopCondition(current_url, now, deadline_ts)
       THEN /\ pc' = "render"
            /\ iter' = [NoIter EXCEPT !.n = iter.n + 1, !.url = current_url]
            /\ html' = <<>>
            /\ submit_url' = ""
            /\ posted' = NoPost
            /\ attempt' = 0
            /\ script_code' = ""
            /\ child' = NoChild
            /\ raised' = "none"
            /\ result' = NoResult
            /\ submission' = Null
            /\ answer' = Null
       ELSE /\ pc' = "done"
            /\ UNCHANGED <<iter, attempt, script_code, child, raised, result,
                           submission, answer, html, submit_url, posted>>
    /\ UNCHANGED <<current_url, deadline_ts, now, api_key, tmp_exists, probe>>

\* lines 171-181: fetch_rendered_html, which may raise
Render(ok, page, d) ==
    /\ pc = "render"
    /\ Count("render")
    /\ now' = now + d
    /\ pc' = IF ok THEN "extract" ELSE OnException
    /\ raised' = IF ok THEN "none" ELSE "render_error"
    /\ html' = IF ok THEN page ELSE html
    /\ UNCHANGED <<current_url, deadline_ts, api_key, attempt, script_code,
                   tmp_exists, child, result, submission, answer,
                   submit_url, posted, probe>>

\* lines 183-193: _extract_question_and_submit_url, which may raise
Extract(ok) ==
    /\ pc = "extract"
    /\ pc' = IF ok THEN "generate" ELSE OnException
    /\ raised' = IF ok THEN "none" ELSE "parse_error"
    /\ submit_url' = IF ok THEN ExtractSubmitUrl(html, current_url) ELSE submit_url
    /\ UNCHANGED <<current_url, deadline_ts, now, api_key, attempt, script_code,
                   tmp_exists, child, result, submission, answer, iter,
                   html, posted, probe>>

\* lines 196-203 of solver.py and line 60 of llm_client.py: the call of
\* generate_solver_script; a missing API key raises GeminiConfigError, which
\* solve_quiz catches (lines 208-210)
GenerateCall ==
    /\ pc = "generate"
    /\ Count("generate")
    /\ attempt' = 0
    /\ pc' = IF api_key THEN "attempt" ELSE OnException
    /\ raised' = IF api_key THEN "none" ELSE "config_error"
    /\ UNCHANGED <<current_url, deadline_ts, now, api_key, script_code,
                   tmp_exists, child, result, submission, answer,
                   html, submit_url, posted, probe>>

\* what one generation attempt can end in
Retryable == {"request_error", "status_5xx", "bad_format", "empty_code"}
AttemptOutcomes == Retryable \cup {"status_4xx", "not_json", "ok"}

AfterAttempt_Raises(o, n) ==
    CASE o = "ok" -> "return"
      [] o = "not_json" -> "raise"
      [] o \in Retryable /\ n < MAX_ATTEMPTS - 1 -> "retry"
      [] OTHER -> "raise"

\* llm_client.py lines 196-270: what follows attempt n ending in o.  "return":
\* the generated code is returned; "retry": sleep and try again; "fallback":
\* the loop is left and the fallback script returned; "raise": the exception
\* is not caught in generate_solver_script (resp.json() raising ValueError)
AfterAttempt(o, n) ==
    CASE o = "ok" -> "return"
      [] o = "not_json" -> "raise"
      [] o \in Retryable /\ n < MAX_ATTEMPTS - 1 -> "retry"
      [] OTHER -> "fallback"

\* one pass of the for loop of generate_solver_script; attempt is a local of
\* generate_solver_script and is gone when it returns or raises
GenerateAttempt(o, d) ==
    /\ pc = "attempt"
    /\ now' = now + d
    /\ LET next == AfterAttempt(o, attempt)
       IN  /\ attempt' = IF next = "retry" THEN attempt + 1 ELSE 0
           /\ pc' = CASE next = "retry" -> "attempt"
                      [] next = "raise" -> OnException
                      [] OTHER -> "run"
           /\ script_code' = CASE next = "return" -> "llm"
                               [] next = "fallback" -> "fallback"
                               [] OTHER -> script_code
    /\ raised' = IF o = "ok" THEN "none" ELSE o
    /\ UNCHANGED <<current_url, deadline_ts, api_key, tmp_exists, child, result,
                   submission, answer, iter, html, submit_url, posted, probe>>

\* script_runner.py lines 20-38: the source is written to a temporary file
\* and the child is started
RunScriptStart ==
    /\ pc = "run"
    /\ Count("child")
    /\ tmp_exists' = TRUE
    /\ pc' = "child"
    /\ UNCHANGED <<current_url, deadline_ts, now, api_key, attempt, script_code,
                   child, raised, result, submission, answer,
                   html, submit_url, posted, probe>>

\* script_runner.py lines 39-107: subprocess.run ends and run_script returns
RunScriptReturn(o, d) ==
    /\ pc = "child"
    /\ o \in ChildOutcomes(script_code)
    /\ now' = now + d
    /\ child' = o
    /\ result' = run_script(o)
    /\ tmp_exists' = TmpAfter(o)
    /\ pc' = "inspect"
    /\ UNCHANGED <<current_url, deadline_ts, api_key, attempt, script_code,
                   raised, submission, answer, iter, html, submit_url, posted, probe>>

LooksSubmitted_WhenCorrect(envelope) ==
    HasKey(envelope, "correct") /\ HasKey(envelope, "url") /\ IsTrue(Get(envelope, "correct"))

\* lines 236: the envelope looks like a grading response
LooksSubmitted(envelope) == HasKey(envelope, "correct") /\ HasKey(envelope, "url")

\* Python's truth value of a JSON value
Truthy(v) ==
    CASE v.t = "null" -> FALSE
      [] v.t = "bool" -> v.b
      [] v.t = "num" -> v.n # 0
      [] v.t = "str" -> v.s # ""
      [] v.t = "list" -> v.items # <<>>
      [] v.t = "dict" -> DOMAIN v.m # {}

\* a or b
PyOr(a, b) == IF Truthy(a) THEN a ELSE b

OVERRIDE_URL == "https://api.example/submit"

\* s.startswith("http") on the texts an envelope names as its endpoint
StartsWithHttp(s) == s \in {OVERRIDE_URL, "http://api.example/submit"}

SubmitTarget_PageOnly(envelope, extracted) == extracted

\* lines 253-259: the endpoint the envelope reports replaces the extracted one
SubmitTarget(envelope, extracted) ==
    LET override_submit == PyOr(Get(envelope, "submit_url"), Get(envelope, "submission_url"))
    IN  IF IsStr(override_submit) /\ StartsWithHttp(override_submit.s)
        THEN override_submit.s
        ELSE extracted

\* lines 224-263: the envelope is inspected and the answer derived
Inspect ==
    /\ pc = "inspect"
    /\ LET envelope == result.response
       IN  IF ~IsDict(envelope)
           THEN /\ pc' = "aborted"
                /\ UNCHANGED <<submission, answer, submit_url>>
           ELSE IF LooksSubmitted(envelope)
                THEN /\ submission' = envelope
                     /\ pc' = "decide"
                     /\ UNCHANGED <<answer, submit_url>>
                ELSE /\ answer' = _make_answer_json_safe(
                                      DefaultAnswer(_normalise_answer_from_envelope(envelope)))
                     /\ submit_url' = SubmitTarget(envelope, submit_url)
                     /\ pc' = "submit"
                     /\ UNCHANGED submission
    /\ UNCHANGED <<current_url, deadline_ts, now, api_key, attempt, script_code,
                   tmp_exists, child, raised, result, iter, html, posted, probe>>

\* HTTP statuses the submission endpoint answers with
Statuses == {200, 500}

\* str() of a status
StatusText(status) == CASE status = 200 -> "200" [] status = 500 -> "500" [] OTHER -> "?"

\* lines 294-297: the reason of the synthesized outcome
NonJsonReason(status, raw_text) ==
    "Non-JSON response from submit endpoint (status=" \o StatusText(status) \o "): " \o raw_text

\* raw_text[:200] (line 296); every other text of the model is shorter
Slice200(raw_text) == IF raw_text = LONG_BODY THEN X200 ELSE raw_text

ParseSubmission_WithRetry(status, body) ==
    LET p == json_loads(body)
    IN  IF p.ok THEN p.v
        ELSE Dict([correct |-> Bool(FALSE), url |-> Str(U2),
                   reason |-> Str(NonJsonReason(status, Slice200(body)))])

\* lines 288-298: resp.json(), or the synthesized negative outcome
ParseSubmission(status, body) ==
    LET p == json_loads(body)
    IN  IF p.ok THEN p.v
        ELSE Dict([correct |-> Bool(FALSE), url |-> Null,
                   reason |-> Str(NonJsonReason(status, Slice200(body)))])

\* lines 267-272: the JSON body of the POST
Payload(email, secret, url, ans) ==
    Dict([email |-> Str(email), secret |-> Str(secret), url |-> Str(url), answer |-> ans])

\* lines 265-306: the POST; ok = FALSE is a network failure
Submit(ok, status, body, d) ==
    /\ pc = "submit"
    /\ Count("post")
    /\ now' = now + d
    /\ posted' = [url |-> submit_url, json |-> Payload(EMAIL, SECRET, current_url, answer)]
    /\ IF ok
       THEN /\ submission' = ParseSubmission(status, body)
            /\ pc' = "decide"
       ELSE /\ pc' = OnException
            /\ UNCHANGED submission
    /\ raised' = IF ok THEN "none" ELSE "post_error"
    /\ UNCHANGED <<current_url, deadline_ts, api_key, attempt, script_code,
                   tmp_exists, child, result, answer, html, submit_url, probe>>

\* lines 308-335: submission.get raises AttributeError, which nothing
\* catches, unless submission is a dict
Decide ==
    /\ pc = "decide"
    /\ IF ~IsDict(submission)
       THEN /\ pc' = "crashed"
            /\ raised' = "attribute_error"
            /\ UNCHANGED current_url
       ELSE /\ raised' = "none"
            /\ IF ShouldContinue(submission, now, deadline_ts)
               THEN /\ current_url' = Get(submission, "url").s
                    /\ pc' = "head"
               ELSE /\ pc' = "done"
                    /\ UNCHANGED current_url
    /\ UNCHANGED <<deadline_ts, now, api_key, attempt, script_code, tmp_exists,
                   child, result, submission, answer, iter, html, submit_url,
                   posted, probe>>

Next ==
    \/ LoopHead
    \/ \E ok \in BOOLEAN, page \in Pages, d \in Durations : Render(ok, page, d)
    \/ \E ok \in BOOLEAN : Extract(ok)
    \/ GenerateCall
    \/ \E o \in AttemptOutcomes, d \in Durations : GenerateAttempt(o, d)
    \/ RunScriptStart
    \/ \E o \in ChildOutcomes("llm"), d \in Durations : RunScriptReturn(o, d)
    \/ Inspect
    \/ \E ok \in BOOLEAN, status \in Statuses, body \in SubmitBodies, d \in Durations :
          Submit(ok, status, body, d)
    \/ Decide

Spec == Init /\ [][Next]_vars

\* solve_quiz runs on: a statement that can be executed is executed, and
\* every collaborator call returns or raises
SpecLive == Init /\ [][Next]_vars /\ WF_vars(Next)

---------------------------------------------------------------------------
(* The helpers of solver.py and the retry loop of llm_client.py applied on  *)
(* their own: probe holds the function, its argument and the results of    *)
(* its calls, the session stays unstarted.                                 *)

PRIMARY_ENDPOINT == "models/gemini-1.5-pro:generateContent"
FALLBACK_ENDPOINT == "models/gemini-2.5-flash:generateContent"

EndpointOf_AlwaysPrimary(n) == PRIMARY_ENDPOINT

\* llm_client.py lines 198-203: the endpoint of attempt n
EndpointOf(n) ==
    IF n = 0 THEN PRIMARY_ENDPOINT
    ELSE IF n = 1 THEN PRIMARY_ENDPOINT
    ELSE FALLBACK_ENDPOINT

\* llm_client.py lines 245, 251: time.sleep(1.5 * (attempt + 1)), in
\* milliseconds
SleepMs(n) == BACKOFF_MS * (n + 1)

\* what the generation service does on the first, second and third request
OutcomePlans == [1..MAX_ATTEMPTS -> AttemptOutcomes]

\* answers handed to _make_answer_json_safe
AnswerValues == {
    Null, Bool(TRUE), Num(0), Num(42), Num(0 - 7), Num(1305),
    Str(""), Str("abc"), Str(" None "), Str("[1,2]"), Str("say \"hi\""),
    List(<<>>), List(<<Num(1), Num(2)>>), List(<<Str("a"), Null, Bool(FALSE)>>),
    List(<<List(<<Num(1)>>), Dict([a |-> Num(1)])>>),
    Dict(EmptyMap), Dict([a |-> Num(1)]), Dict([a |-> Num(1), b |-> List(<<Num(2), Num(3)>>)]),
    Dict([a |-> Dict([b |-> Str("say \"hi\"")]), answer |-> Null]) }

\* the value an envelope of the helper runs has under each of its keys
EnvelopeValue(key) ==
    CASE key = "answer" -> Num(1)
      [] key = "result" -> Num(2)
      [] key = "value" -> Null
      [] key = "output" -> Str("out")
      [] key = "answer_value" -> Num(4)
      [] key = "data" -> Dict([answer |-> Num(5)])
      [] key = "meta" -> Dict([answer |-> Num(6)])
      [] key = "extra" -> Dict([answer |-> Str("inner")])
      [] key = "note" -> Dict([b |-> Num(8)])

EnvelopeKeys == {"answer", "result", "value", "output", "answer_value", "data",
                 "meta", "extra", "note"}

\* envelopes handed to _normalise_answer_from_envelope
Envelopes == {Dict([key \in keys |-> EnvelopeValue(key)]) : keys \in SUBSET EnvelopeKeys}

\* URL matches of the pages handed to _extract_question_and_submit_url
RawUrls == {
    "https://q.example/1",
    "https://q.example/1.",
    "https://cdn.example/static/app.js",
    "https://cdn.example/IMG.PNG",
    "https://cdn.example/static/app.js?v=1",
    "https://q.example/submit",
    "https://api.example/Answer?v=1",
    "https://other.example/page2",
    "https://other.example/notes.txt);",
    "https://other.example/",
    "http://other.example" }

\* the URLs of those pages
PageUrls == {U1, "https://other.example/submit", "http://other.example/page2"}

RECURSIVE SeqsUpTo(_, _)
SeqsUpTo(S, n) ==
    IF n = 0 THEN {<<>>}
    ELSE LET shorter == SeqsUpTo(S, n - 1)
         IN  shorter \cup {Append(seq, x) : seq \in {q \in shorter : Len(q) = n - 1}, x \in S}

Probe(fn, arg) == [fn |-> fn, arg |-> arg, rets |-> <<>>]

Probes ==
    {Probe("_make_answer_json_safe", a) : a \in AnswerValues}
    \cup {Probe("_normalise_answer_from_envelope", e) : e \in Envelopes}
    \cup {Probe("generate_solver_script", plan) : plan \in OutcomePlans}
    \cup {Probe("_extract_question_and_submit_url", [raw_urls |-> raw_urls, quiz_url |-> quiz_url]) :
              raw_urls \in SeqsUpTo(RawUrls, MaxUrls), quiz_url \in PageUrls}

InitHelpers ==
    /\ pc = "unstarted"
    /\ current_url = ""
    /\ deadline_ts = 0
    /\ now = 0
    /\ api_key = FALSE
    /\ attempt = 0
    /\ script_code = ""
    /\ tmp_exists = FALSE
    /\ child = NoChild
    /\ raised = "none"
    /\ result = NoResult
    /\ submission = Null
    /\ answer = Null
    /\ iter = NoIter
    /\ html = <<>>
    /\ submit_url = ""
    /\ posted = NoPost
    /\ probe \in Probes

Session == <<pc, current_url, deadline_ts, now, api_key, attempt, script_code,
             tmp_exists, child, raised, result, submission, answer, iter,
             html, submit_url, posted>>

Returned(ret) == probe' = [probe EXCEPT !.rets = Append(@, ret)]

\* _make_answer_json_safe is applied to the argument, then to its own result
CallJsonSafe ==
    /\ probe.fn = "_make_answer_json_safe"
    /\ Len(probe.rets) < 2
    /\ Returned(_make_answer_json_safe(
                    IF probe.rets = <<>> THEN probe.arg ELSE probe.rets[Len(probe.rets)]))
    /\ UNCHANGED Session

CallNormalise ==
    /\ probe.fn = "_normalise_answer_from_envelope"
    /\ probe.rets = <<>>
    /\ Returned(_normalise_answer_from_envelope(probe.arg))
    /\ UNCHANGED Session

CallExtract ==
    /\ probe.fn = "_extract_question_and_submit_url"
    /\ probe.rets = <<>>
    /\ Returned(ExtractSubmitUrl(probe.arg.raw_urls, probe.arg.quiz_url))
    /\ UNCHANGED Session

\* llm_client.py lines 196-254: one pass of the for loop; each pass is
\* recorded with its endpoint, its outcome, what follows and the sleep
\* before the next pass
GenerateLoopPass ==
    /\ probe.fn = "generate_solver_script"
    /\ Len(probe.rets) < MAX_ATTEMPTS
    /\ (probe.rets # <<>> => probe.rets[Len(probe.rets)].next = "retry")
    /\ LET n == Len(probe.rets)
           o == probe.arg[n + 1]
           next == AfterAttempt(o, n)
       IN  Returned([attempt |-> n,
                     endpoint |-> EndpointOf(n),
                     outcome |-> o,
                     next |-> next,
                     sleep_ms |-> IF next = "retry" THEN SleepMs(n) ELSE 0])
    /\ UNCHANGED Session

NextHelpers == CallJsonSafe \/ CallNormalise \/ CallExtract \/ GenerateLoopPass

SpecHelpers == InitHelpers /\ [][NextHelpers]_vars

---------------------------------------------------------------------------
(* main.py: quiz_endpoint and process_request.  One inbound request is     *)
(* handled; pc is "unstarted" until the background task is scheduled,      *)
(* "scheduled" until it runs, and "head" when solve_quiz is entered.       *)

\* values of EXPECTED_SECRET (line 13): None when the variable is not set
ExpectedSecrets == {Null, Str(SECRET), Str("")}

\* request bodies that are JSON objects with the three fields of QuizRequest
ValidPayloads ==
    {Dict([email |-> Str(EMAIL), secret |-> Str(sec), url |-> Str(u)]) :
        sec \in {SECRET, "wrong", ""}, u \in Urls}
    \cup {Dict([email |-> Str(EMAIL), secret |-> Str(sec), url |-> Str(u), note |-> Num(1)]) :
        sec \in {SECRET, "wrong", ""}, u \in Urls}

\* what request.json() gives (lines 50-53)
RequestBodies ==
    {DecodeError, Parsed(List(<<>>)), Parsed(Dict(EmptyMap)),
     Parsed(Dict([email |-> Str(EMAIL), url |-> Str(U1)])),
     Parsed(Dict([email |-> Str(EMAIL), secret |-> Str(SECRET), url |-> Str("not a url")]))}
    \cup {Parsed(v) : v \in ValidPayloads}

\* time.time() when the request arrives
ArrivalTimes == {0, 7}

Requests == [body : RequestBodies, expected : ExpectedSecrets, received_at : ArrivalTimes]

\* AnyHttpUrl (line 24) on the texts of the model
IsHttpUrl(s) == s \in Urls

\* lines 21-29 and 57: QuizRequest(**raw_body) succeeds; extra fields are
\* ignored
ValidPayload(v) ==
    /\ {"email", "secret", "url"} \subseteq DOMAIN v.m
    /\ IsStr(v.m["email"])
    /\ IsStr(v.m["secret"])
    /\ IsStr(v.m["url"]) /\ IsHttpUrl(v.m["url"].s)

SecretMatches_Any(secret, expected) == TRUE

\* line 65
SecretMatches(secret, expected) == Str(secret) = expected

Response(status, detail) == [status |-> status, detail |-> detail]

\* lines 49-78: the response of quiz_endpoint; QuizRequest(**raw_body) on a
\* body that is no mapping raises TypeError, which is not handled (status 500)
EndpointResponse(request) ==
    LET body == request.body
    IN  CASE ~body.ok -> Response(400, "Invalid JSON")
          [] body.ok /\ ~IsDict(body.v) -> Response(500, "Internal Server Error")
          [] body.ok /\ IsDict(body.v) /\ ~ValidPayload(body.v) -> Response(400, "Invalid payload")
          [] OTHER ->
               IF request.expected = Null
               THEN Response(500, "Server secret not configured")
               ELSE IF ~SecretMatches(body.v.m["secret"].s, request.expected)
               THEN Response(403, "Invalid secret")
               ELSE Response(200, "accepted")

InitEndpoint ==
    /\ pc = "unstarted"
    /\ current_url = ""
    /\ deadline_ts = 0
    /\ api_key = FALSE
    /\ attempt = 0
    /\ script_code = ""
    /\ tmp_exists = FALSE
    /\ child = NoChild
    /\ raised = "none"
    /\ result = NoResult
    /\ submission = Null
    /\ answer = Null
    /\ iter = NoIter
    /\ html = <<>>
    /\ submit_url = ""
    /\ posted = NoPost
    /\ \E request \in Requests :
          /\ probe = Probe("quiz_endpoint", request)
          /\ now = request.received_at

\* lines 47-78: the request is answered; the background task is added (lines
\* 70-76) only on the path that reaches line 69
QuizEndpoint ==
    /\ probe.fn = "quiz_endpoint"
    /\ probe.rets = <<>>
    /\ LET response == EndpointResponse(probe.arg)
       IN  /\ Returned(response)
           /\ pc' = IF response.status = 200 THEN "scheduled" ELSE pc
    /\ UNCHANGED <<current_url, deadline_ts, now, api_key, attempt, script_code,
                   tmp_exists, child, raised, result, submission, answer, iter,
                   html, submit_url, posted>>

\* lines 32-44: the background task computes the deadline and enters
\* solve_quiz
ProcessRequest ==
    /\ probe.fn = "quiz_endpoint"
    /\ pc = "scheduled"
    /\ pc' = "head"
    /\ current_url' = probe.arg.body.v.m["url"].s
    /\ deadline_ts' = probe.arg.received_at + SESSION_SECONDS
    /\ UNCHANGED <<now, api_key, attempt, script_code, tmp_exists, child, raised,
                   result, submission, answer, iter, html, submit_url, posted, probe>>

NextEndpoint == QuizEndpoint \/ ProcessRequest

SpecEndpoint == InitEndpoint /\ [][NextEndpoint]_vars

---------------------------------------------------------------------------
(* The claims *)

\* the session was started with its deadline already in the past (now = 0
\* when solve_quiz is entered)
DeadlinePassedAtStart == deadline_ts <= 0

\* C1: an iteration is started, and the render call issued, only at a time
\* earlier than deadline_ts - 30; a session started with its deadline in the
\* past makes no iteration and no call and goes from the loop test to DONE.
C1_DeadlineRespected ==
    /\ [][(iter'.n = iter.n + 1 \/ iter'.render = iter.render + 1)
             => now < deadline_ts - 30]_vars
    /\ [](DeadlinePassedAtStart => (iter = NoIter /\ pc \in {"head", "done"}))

C1_Witness ==
    /\ pc = "done"
    /\ DeadlinePassedAtStart
    /\ current_url # ""
    /\ iter = NoIter

\* the envelope of this iteration resolves to "no usable answer"
NoUsableAnswer ==
    /\ IsDict(result.response)
    /\ ~LooksSubmitted(result.response)
    /\ _normalise_answer_from_envelope(result.response) = Null

\* C2 as stated: with no usable answer, no POST is made in the iteration and
\* the session ends in ABORTED.
C2_NoAnswerNoSubmission ==
    NoUsableAnswer => (iter.post = 0 /\ pc \in {"inspect", "aborted"})

\* C2, amended: with no usable answer, the answer is replaced by the empty
\* string and the POST is made with it.
C2_EmptyAnswerSubmitted ==
    (NoUsableAnswer /\ pc # "inspect")
        => (answer = Str("") /\ (pc = "submit" \/ iter.post = 1))

C2_Witness ==
    /\ NoUsableAnswer
    /\ child.kind = "timeout"
    /\ answer = Str("")
    /\ iter.post = 1

\* the child printed nothing that supplies an answer
NoAnswerSupplied ==
    \/ child.kind \in {"timeout", "error"}
    \/ strip(child.out) = ""
    \/ (~json_loads(strip(child.out)).ok /\ child.returncode # 0)
    \/ /\ json_loads(strip(child.out)).ok
       /\ IsDict(json_loads(strip(child.out)).v)
       /\ ~HasKey(json_loads(strip(child.out)).v, "answer")

\* C3: whatever the child did, the envelope run_script returns is a mapping
\* with the key answer, null when the script supplied none.
C3_EnvelopeTotal ==
    child.kind # "none"
        => /\ IsDict(result.response)
           /\ HasKey(result.response, "answer")
           /\ NoAnswerSupplied => result.response.m["answer"] = Null

C3_Witness ==
    /\ child.kind = "exit"
    /\ child.out = "{\"result\": 5}\n"
    /\ result.response = Dict([result |-> Num(5), answer |-> Null])

\* C4: the temporary file exists only while the child runs; it is gone when
\* run_script has returned, whatever the child did.
C4_TempFileRemoved == tmp_exists => pc = "child"

C4_Witness ==
    /\ pc = "inspect"
    /\ child.kind = "exit"
    /\ ~tmp_exists

\* a non-empty next URL is present in the submission outcome
NextUrlPresent == IsStr(Get(submission, "url")) /\ Get(submission, "url").s # ""

\* C5: the decide step.  correct true: continue with exactly the next URL
\* when one is present, else DONE.  Otherwise: continue with the next URL
\* only when one is present and now < deadline_ts - 60, else DONE.
C5_Decide ==
    [][(pc = "decide" /\ IsDict(submission))
          => (IF Get(submission, "correct") = Bool(TRUE)
              THEN IF NextUrlPresent
                   THEN (pc' = "head" /\ current_url' = Get(submission, "url").s)
                   ELSE (pc' = "done" /\ current_url' = current_url)
              ELSE IF NextUrlPresent /\ now < deadline_ts - 60
                   THEN (pc' = "head" /\ current_url' = Get(submission, "url").s)
                   ELSE (pc' = "done" /\ current_url' = current_url))]_vars

C5_Witness ==
    /\ pc = "head"
    /\ iter.post = 1
    /\ Get(submission, "correct") = Bool(FALSE)
    /\ Get(submission, "url") = Str(U2)
    /\ current_url = U2
    /\ now < deadline_ts - 60

\* C6: from DONE or ABORTED the session makes no further call and stays
\* where it is.
C6_TerminalIsFinal ==
    [][(pc \in {"done", "aborted"}) => (pc' = pc /\ iter' = iter /\ now' = now)]_vars

C6_Witness ==
    /\ pc \in {"done", "aborted"}
    /\ iter.post = 1

\* generation ended with every attempt failed: the retry loop was left on a
\* request error, an HTTP status error or an unusable response
AllAttemptsFailed ==
    /\ pc # "attempt"
    /\ raised \in {"request_error", "status_5xx", "status_4xx", "bad_format", "empty_code"}

\* C7 as stated: when generation fails the session is ABORTED, no child is
\* executed and no POST made.
C7_GenerationFailureAborts ==
    AllAttemptsFailed => (pc = "aborted" /\ iter.child = 0 /\ iter.post = 0)

\* C7, amended: when every attempt fails, the fallback script is returned and
\* executed, and the empty string is submitted; the session is ABORTED
\* without a child or a POST only when generate_solver_script raises (no API
\* key, or a response body that is not JSON).
C7_FallbackScriptRuns ==
    /\ AllAttemptsFailed
          => (script_code = "fallback" /\ pc \in {"run", "child", "inspect", "submit"})
    /\ script_code = "fallback" => (pc = "run" \/ iter.child = 1)
    /\ (script_code = "fallback" /\ pc \notin {"run", "child", "inspect"})
          => (answer = Str("") /\ (pc = "submit" \/ iter.post = 1))
    /\ raised \in {"config_error", "not_json"}
          => (pc = "aborted" /\ iter.child = 0 /\ iter.post = 0)

C7_Witness ==
    /\ script_code = "fallback"
    /\ child.kind = "exit"
    /\ answer = Str("")
    /\ iter.post = 1

\* C8: no exception escapes solve_quiz, whatever the submission endpoint
\* returns.
C8_NoExceptionEscapes == pc # "crashed"

\* C9: a failure of the render call, of context extraction or of the POST
\* ends the session at once: the later steps of the iteration are not taken,
\* no iteration follows and no exception escapes.
C9_CollaboratorFailureEnds ==
    /\ [](raised = "render_error"
             => (pc = "aborted" /\ iter.generate = 0 /\ iter.child = 0 /\ iter.post = 0))
    /\ [](raised = "parse_error"
             => (pc = "aborted" /\ iter.generate = 0 /\ iter.child = 0 /\ iter.post = 0))
    /\ [](raised = "post_error" => (pc = "aborted" /\ submission = Null))
    /\ [][(raised \in {"render_error", "parse_error", "post_error"})
             => (pc' = pc /\ iter' = iter)]_vars

C9_Witness ==
    /\ raised = "post_error"
    /\ pc = "aborted"
    /\ iter.post = 1

\* C10 as stated: on a timeout the envelope is {"answer": null, "error": "timeout"}.
C10_TimeoutEnvelopeLower ==
    child.kind = "timeout"
        => /\ result.returncode # 0
           /\ result.stdout = ""
           /\ result.stderr = TIMEOUT_STDERR
           /\ result.response = Dict([answer |-> Null, error |-> Str("timeout")])

\* C10, amended: on a timeout the result has returncode -1, empty stdout, the
\* TimeoutExpired text in stderr and the envelope
\* {"answer": null, "error": "Timeout"}.
C10_TimeoutEnvelope ==
    child.kind = "timeout"
        => /\ result.returncode = -1
           /\ result.stdout = ""
           /\ result.stderr = TIMEOUT_STDERR
           /\ result.response = Dict([answer |-> Null, error |-> Str("Timeout")])

C10_Witness ==
    /\ pc = "inspect"
    /\ child.kind = "timeout"
    /\ result.response.m["error"] = Str("Timeout")

\* the envelope of this iteration carries both a correct and a url key
EnvelopeIsOutcome ==
    /\ IsDict(result.response)
    /\ "correct" \in DOMAIN result.response.m
    /\ "url" \in DOMAIN result.response.m

\* C11: when the envelope carries both a correct and a url key, solve_quiz
\* takes the envelope itself as the submission outcome, makes no POST in that
\* iteration and goes from the inspection straight to the decision.
C11_EnvelopeAsOutcome ==
    EnvelopeIsOutcome =>
        /\ pc \in {"inspect", "decide", "head", "done"}
        /\ iter.post = 0
        /\ posted = NoPost
        /\ (pc # "inspect" => submission = result.response)

C11_Witness ==
    /\ EnvelopeIsOutcome
    /\ pc = "done"
    /\ submission = Dict([correct |-> Bool(FALSE), url |-> Null, answer |-> Null])
    /\ iter.post = 0

\* the endpoint the envelope of this iteration reports: submit_url, or
\* submission_url when submit_url is missing or empty
ReportedEndpoint ==
    LET first == Get(result.response, "submit_url")
        second == Get(result.response, "submission_url")
    IN  IF Truthy(first) THEN first ELSE second

ReportsEndpoint == IsStr(ReportedEndpoint) /\ StartsWithHttp(ReportedEndpoint.s)

\* C12: every submission POST carries exactly the fields email, secret, url
\* and answer; url is the URL the iteration was started with and answer is
\* the normalized answer; the POST goes to the endpoint extracted from the
\* page of that iteration, unless the envelope reports an endpoint (a string
\* starting with http), and then to that one.
C12_PostShape ==
    posted # NoPost =>
        /\ IsDict(posted.json)
        /\ DOMAIN posted.json.m = {"email", "secret", "url", "answer"}
        /\ posted.json.m["email"] = Str(EMAIL)
        /\ posted.json.m["secret"] = Str(SECRET)
        /\ posted.json.m["url"] = Str(iter.url)
        /\ posted.json.m["answer"] = answer
        /\ answer = _make_answer_json_safe(
                        DefaultAnswer(_normalise_answer_from_envelope(result.response)))
        /\ posted.url = IF ReportsEndpoint
                        THEN ReportedEndpoint.s
                        ELSE ExtractSubmitUrl(html, iter.url)

C12_Witness ==
    /\ pc = "decide"
    /\ posted # NoPost
    /\ iter.n = 2
    /\ posted.json.m["url"] = Str(U2)
    /\ posted.json.m["answer"] = Num(42)
    /\ html # <<>>
    /\ posted.url = OVERRIDE_URL
    /\ ExtractSubmitUrl(html, iter.url) = "https://q.example/submit"

\* the outcome that stands for a response of the given status whose body is
\* not JSON: negative, without a next URL, the reason carrying the status and
\* the first 200 characters of the body
NegativeOutcome(status, body) ==
    Dict([correct |-> Bool(FALSE), url |-> Null,
          reason |-> Str("Non-JSON response from submit endpoint (status="
                         \o StatusText(status) \o "): " \o Slice200(body))])

NonJsonBodies == {body \in SubmitBodies : ~json_loads(body).ok}

\* C13: a response to the POST whose body is not JSON becomes a synthesized
\* negative outcome (correct false, no next URL, the raw text in the reason),
\* and the decision on that outcome ends the session: the URL is kept and no
\* further iteration is started.
C13_NonJsonEndsSession ==
    [][/\ \A status \in Statuses, body \in NonJsonBodies, d \in Durations :
              Submit(TRUE, status, body, d) => (submission' = NegativeOutcome(status, body))
       /\ (/\ pc = "decide"
           /\ \E status \in Statuses, body \in NonJsonBodies :
                  submission = NegativeOutcome(status, body))
              => (pc' = "done" /\ current_url' = current_url /\ iter' = iter)]_vars

C13_Witness ==
    /\ pc = "done"
    /\ iter.post = 1
    /\ now < deadline_ts - RETRY_MARGIN
    /\ submission = NegativeOutcome(500, LONG_BODY)
    /\ Get(submission, "reason") =
          Str("Non-JSON response from submit endpoint (status=500): " \o X200)

\* the child of this iteration ran to its end and printed text that is not
\* empty after trimming and is not JSON
PrintedPlainText ==
    /\ child.kind = "exit"
    /\ strip(child.out) # ""
    /\ ~json_loads(strip(child.out)).ok

\* C14 as stated: plain text becomes the answer when the exit status is 0,
\* and otherwise the envelope is answer null with the text in error.
C14_PlainTextInError ==
    PrintedPlainText =>
        result.response =
            IF child.returncode = 0
            THEN Dict([answer |-> Str(strip(child.out))])
            ELSE Dict([answer |-> Null, error |-> Str(strip(child.out))])

\* C14, amended: plain text becomes the answer when the exit status is 0;
\* otherwise the envelope is answer null with an error that is the trimmed
\* standard error of the child when that is not empty, and the trimmed
\* standard output only when the standard error is empty.
C14_PlainTextEnvelope ==
    PrintedPlainText =>
        result.response =
            IF child.returncode = 0
            THEN Dict([answer |-> Str(strip(child.out))])
            ELSE Dict([answer |-> Null,
                       error |-> Str(IF strip(child.err) # ""
                                     THEN strip(child.err)
                                     ELSE strip(child.out))])

C14_Witness ==
    /\ PrintedPlainText
    /\ child.returncode = 1
    /\ child.err = "Traceback\n"
    /\ result.response = Dict([answer |-> Null, error |-> Str("Traceback")])

\* the child of this iteration ran to its end and printed JSON
PrintedJson ==
    /\ child.kind = "exit"
    /\ strip(child.out) # ""
    /\ json_loads(strip(child.out)).ok

\* C15: when the standard output parses as JSON, a value that is not a
\* mapping becomes the answer of the envelope, which has no other key; a
\* mapping is the envelope, every key and value as printed, and gains only
\* the key answer, with value null, when it lacks it.
C15_JsonEnvelope ==
    PrintedJson =>
        LET v == json_loads(strip(child.out)).v
            response == result.response
        IN  /\ IsDict(response)
            /\ IF v.t = "dict"
               THEN /\ DOMAIN response.m = DOMAIN v.m \cup {"answer"}
                    /\ \A key \in DOMAIN v.m : response.m[key] = v.m[key]
                    /\ ("answer" \notin DOMAIN v.m => response.m["answer"] = Null)
               ELSE /\ DOMAIN response.m = {"answer"}
                    /\ response.m["answer"] = v

\* a mapping without answer gained it, and nothing else changed
C15_Witness ==
    /\ PrintedJson
    /\ json_loads(strip(child.out)).v = Dict([result |-> Num(5)])
    /\ result.response = Dict([result |-> Num(5), answer |-> Null])

\* a text after trimming and lower-casing
TrimLower(s) == IF s = " None " THEN "none" ELSE s

\* null, the empty string, or a string that reads "none"
NoneLike(v) == v = Null \/ (IsStr(v) /\ TrimLower(v.s) \in {"", "none"})

\* the answer resolved from the envelope of this iteration is none-like, and
\* the envelope has been inspected
NoneLikeAnswer ==
    /\ IsDict(result.response)
    /\ ~EnvelopeIsOutcome
    /\ NoneLike(_normalise_answer_from_envelope(result.response))
    /\ pc # "inspect"

\* C16 as stated: a null, empty or "none" answer is normalized to "no usable
\* answer" and the loop aborts instead of submitting it.
C16_NoneLikeAborts == NoneLikeAnswer => (pc = "aborted" /\ iter.post = 0)

\* C16, amended: the normalizer returns the empty string and a string that
\* reads "none" unchanged, the loop replaces null by the empty string, and
\* the value is submitted like any other answer.
C16_NoneLikeSubmitted ==
    NoneLikeAnswer =>
        LET resolved == _normalise_answer_from_envelope(result.response)
        IN  /\ answer = IF resolved = Null THEN Str("") ELSE resolved
            /\ (pc # "submit" => (iter.post = 1 /\ posted.json.m["answer"] = answer))

C16_Witness ==
    /\ NoneLikeAnswer
    /\ pc = "decide"
    /\ iter.post = 1
    /\ posted.json.m["answer"] = Str(" None ")

\* the compact JSON text of the structured answers: no space after a comma
\* or a colon
CompactText(v) ==
    CASE v = List(<<>>) -> "[]"
      [] v = List(<<Num(1), Num(2)>>) -> "[1,2]"
      [] v = List(<<Str("a"), Null, Bool(FALSE)>>) -> "[\"a\",null,false]"
      [] v = List(<<List(<<Num(1)>>), Dict([a |-> Num(1)])>>) -> "[[1],{\"a\":1}]"
      [] v = Dict(EmptyMap) -> "{}"
      [] v = Dict([a |-> Num(1)]) -> "{\"a\":1}"
      [] v = Dict([a |-> Num(1), b |-> List(<<Num(2), Num(3)>>)]) -> "{\"a\":1,\"b\":[2,3]}"
      [] v = Dict([a |-> Dict([b |-> Str("say \"hi\"")]), answer |-> Null])
            -> "{\"a\":{\"b\":\"say \\\"hi\\\"\"},\"answer\":null}"

\* C17: normalizing is idempotent: a scalar (null, boolean, number, string)
\* is returned unchanged, a mapping or sequence becomes its compact JSON
\* text, and normalizing the result again returns the same value.
C17_NormalizeIdempotent ==
    (probe.fn = "_make_answer_json_safe" /\ probe.rets # <<>>) =>
        /\ probe.rets[1] = IF probe.arg.t \in {"list", "dict"}
                           THEN Str(CompactText(probe.arg))
                           ELSE probe.arg
        /\ (Len(probe.rets) = 2 => probe.rets[2] = probe.rets[1])

C17_Witness ==
    /\ probe.fn = "_make_answer_json_safe"
    /\ probe.arg = Dict([a |-> Num(1), b |-> List(<<Num(2), Num(3)>>)])
    /\ probe.rets = <<Str("{\"a\":1,\"b\":[2,3]}"), Str("{\"a\":1,\"b\":[2,3]}")>>

\* the value the fallback search is to find in an envelope without answer:
\* the value under the first key present among result, value, output,
\* answer_value, data; else the inner answer of the first mapping value, in
\* the order of the envelope, that has one; else null
FallbackValue(e) ==
    IF "result" \in DOMAIN e.m THEN e.m["result"]
    ELSE IF "value" \in DOMAIN e.m THEN e.m["value"]
    ELSE IF "output" \in DOMAIN e.m THEN e.m["output"]
    ELSE IF "answer_value" \in DOMAIN e.m THEN e.m["answer_value"]
    ELSE IF "data" \in DOMAIN e.m THEN e.m["data"]
    ELSE LET inner == {i \in DOMAIN KEY_ORDER :
                          /\ KEY_ORDER[i] \in DOMAIN e.m
                          /\ e.m[KEY_ORDER[i]].t = "dict"
                          /\ "answer" \in DOMAIN e.m[KEY_ORDER[i]].m}
         IN  IF inner = {} THEN Null
             ELSE e.m[KEY_ORDER[CHOOSE i \in inner : \A j \in inner : i <= j]].m["answer"]

\* C18: for an envelope without the key answer the search returns the value
\* of the first key present among result, value, output, answer_value, data,
\* in that order; failing that the inner answer of the first nested mapping
\* that has one; failing that null ("no usable answer").  When the envelope
\* has the key answer, its value is returned whatever the other keys are.
C18_FallbackSearch ==
    (probe.fn = "_normalise_answer_from_envelope" /\ probe.rets # <<>>) =>
        probe.rets[1] = IF "answer" \in DOMAIN probe.arg.m
                        THEN probe.arg.m["answer"]
                        ELSE FallbackValue(probe.arg)

\* data comes first in the envelope and result last; result is returned
C18_Witness ==
    /\ probe.fn = "_normalise_answer_from_envelope"
    /\ DOMAIN probe.arg.m = {"data", "output", "result", "meta"}
    /\ OrderedKeys(probe.arg) = <<"data", "output", "result", "meta">>
    /\ probe.rets = <<Num(2)>>

\* the extraction has been applied to a page
Extracted == probe.fn = "_extract_question_and_submit_url" /\ probe.rets # <<>>

\* a URL that ends, whatever the case of its letters, in a static-asset
\* extension
IsAsset(u) == \E ext \in asset_exts : endswith(lower(u), ext)

HasKeyword(u) == \E key \in {"submit", "answer", "quiz"} : contains(lower(u), key)

\* the positions of the page's URL matches that are, without their trailing
\* punctuation, neither the page's own URL nor a static asset
Remaining(raw_urls, quiz_url) ==
    {i \in DOMAIN raw_urls :
        /\ rstrip(raw_urls[i]) # rstrip(quiz_url)
        /\ ~IsAsset(rstrip(raw_urls[i]))}

Least(S) == CHOOSE i \in S : \A j \in S : i <= j

\* the first remaining URL with a keyword, or the first remaining URL
Chosen(raw_urls, quiz_url) ==
    LET remaining == Remaining(raw_urls, quiz_url)
        keyed == {i \in remaining : HasKeyword(rstrip(raw_urls[i]))}
    IN  rstrip(raw_urls[Least(IF keyed # {} THEN keyed ELSE remaining)])

\* <scheme>://<host>/submit of a URL
SubmitOf(u) == UrlOf(u).scheme \o "://" \o UrlOf(u).netloc \o "/submit"

\* a chosen URL with an empty or root-only path is replaced by the submit
\* URL of its host
Rewritten(u) == IF UrlOf(u).path \in {"", "/"} THEN SubmitOf(u) ELSE u

C20_FallbackUrl ==
    (Extracted /\ Remaining(probe.arg.raw_urls, probe.arg.quiz_url) = {}) =>
        probe.rets[1] = SubmitOf(probe.arg.quiz_url)

C20_Witness ==
    /\ Extracted
    /\ probe.arg.quiz_url = "http://other.example/page2"
    /\ probe.arg.raw_urls = <<"https://cdn.example/IMG.PNG", "https://cdn.example/static/app.js">>
    /\ probe.rets = <<"http://other.example/submit">>

\* the inbound request carries a payload with the three fields, and its
\* secret is the one the server expects
SecretIsExpected ==
    LET body == probe.arg.body
    IN  /\ body.ok
        /\ body.v.t = "dict"
        /\ {"email", "secret", "url"} \subseteq DOMAIN body.v.m
        /\ probe.arg.expected # Null
        /\ body.v.m["secret"] = probe.arg.expected

\* C21: a session is scheduled, and solve_quiz entered, only for a request
\* whose secret equals the expected secret of the server; with a wrong
\* secret, without a server secret or with an invalid payload the request is
\* answered with an error and no session is scheduled.
C21_SecretGuardsSession ==
    probe.fn = "quiz_endpoint" =>
        /\ (pc # "unstarted" => SecretIsExpected)
        /\ ((probe.rets # <<>> /\ ~SecretIsExpected)
              => (pc = "unstarted" /\ probe.rets[1].status \in {400, 403, 500}))

C21_Witness ==
    /\ probe.fn = "quiz_endpoint"
    /\ probe.arg.expected = Str(SECRET)
    /\ probe.rets = <<Response(200, "accepted")>>
    /\ pc = "head"
    /\ current_url = U2
    /\ deadline_ts = 187

\* C22: in every iteration at most one child process is executed and at
\* most one submission POST is made; the deadline never changes once the
\* session runs; and current_url changes only in the step from the decision
\* of one iteration to the head of the next.
C22_OncePerIteration ==
    [][/\ iter'.child <= 1
       /\ iter'.post <= 1
       /\ deadline_ts' = deadline_ts
       /\ (current_url' # current_url => (pc = "decide" /\ pc' = "head"))]_vars

\* the second iteration, on the next URL, has run its child and made its POST
C22_Witness ==
    /\ iter.n = 2
    /\ iter.url = U2
    /\ current_url = U2
    /\ iter.child = 1
    /\ iter.post = 1
    /\ pc = "decide"

C24_Terminates == <>(pc \in {"done", "aborted", "crashed"})

\* the last submission was correct and named a next URL, and the head of the
\* loop ended the session in its second iteration or later
C24_Witness ==
    /\ pc = "done"
    /\ iter.n >= 2
    /\ IsDict(submission)
    /\ Get(submission, "correct") = Bool(TRUE)
    /\ Get(submission, "url") = Str(current_url)
    /\ current_url # iter.url
    /\ now >= deadline_ts - 30

\* the envelope of the iteration has been inspected and was not taken for a
\* grading response
AnswerDerived ==
    /\ pc \notin {"inspect", "child"}
    /\ IsDict(result.response)
    /\ ~("correct" \in DOMAIN result.response.m /\ "url" \in DOMAIN result.response.m)

\* C25: in solve_quiz every envelope that is a dict has the key answer, so
\* the answer derived from it is the value of that key (None replaced by the
\* empty string, a dict or list by its JSON text) and never the value of a
\* fallback key or of a nested answer; the outputs {"result": 5} and
\* {"meta": {"answer": 7}} give the answer None, submitted as the empty
\* string, and not 5 or 7.
C25_AnswerKeyOnly ==
    /\ (IsDict(result.response) => "answer" \in DOMAIN result.response.m)
    /\ (AnswerDerived =>
          LET direct == result.response.m["answer"]
              given == IF direct = Null THEN Str("") ELSE direct
          IN  answer = IF given.t \in {"dict", "list"} THEN Str(json_dumps(given)) ELSE given)
    /\ (AnswerDerived /\ child.out = "{\"result\": 5}\n" =>
          /\ result.response.m["answer"] = Null
          /\ answer = Str("")
          /\ answer # Num(5))
    /\ (AnswerDerived /\ child.out = "{\"meta\": {\"answer\": 7}}\n" =>
          /\ result.response.m["answer"] = Null
          /\ answer = Str("")
          /\ answer # Num(7))

\* the child printed {"result": 5} and the empty string was submitted
C25_Witness ==
    /\ pc = "decide"
    /\ child.out = "{\"result\": 5}\n"
    /\ IsDict(result.response)
    /\ DOMAIN result.response.m = {"answer", "result"}
    /\ result.response.m["result"] = Num(5)
    /\ answer = Str("")
    /\ posted # NoPost
    /\ posted.json.m["answer"] = Str("")
    /\ iter.post = 1

===========================================================================
